---- MODULE Spec2Model ----
(***************************************************************************)
(* get_contact_trace.py of getcontacts: the command-line pipeline          *)
(*   main: parse_itypes -> parse_interaction_patterns -> parse_labels      *)
(*         -> parse_contacts (per file) -> filter_contacts -> write_trace  *)
(* Python strings are sequences of one-character strings, so that          *)
(* str.split(), str.replace() and re.match() are computed, not assumed.    *)
(* Python's None is the empty tuple, Some(v) the one-element tuple <<v>>.  *)
(***************************************************************************)
EXTENDS Integers, Sequences, FiniteSets, TLC

\* ---------------------------------------------------------------- bounds
MaxPatterns == 2
MaxFiles == 2
MaxLabels == 4
MaxRecs == 2
MaxFrame == 1

\* ------------------------------------------------------- python helpers
None == <<>>
Some(v) == <<v>>

Range(s) == { s[i] : i \in DOMAIN s }

SeqsUpTo(S, lo, hi) == UNION { [1..n -> S] : n \in lo..hi }

RECURSIVE Concat(_)
Concat(ss) == IF ss = <<>> THEN <<>> ELSE Head(ss) \o Concat(Tail(ss))

\* the characters str.split() (no argument) treats as separators
Whitespace == { " ", "\t", "\n" }

\* s.split(): maximal runs of non-whitespace characters, in order
RECURSIVE SplitFrom(_, _, _, _)
SplitFrom(s, i, cur, acc) ==
  IF i > Len(s)
    THEN (IF cur = <<>> THEN acc ELSE Append(acc, cur))
    ELSE IF s[i] \in Whitespace
      THEN SplitFrom(s, i + 1, <<>>, IF cur = <<>> THEN acc ELSE Append(acc, cur))
      ELSE SplitFrom(s, i + 1, Append(cur, s[i]), acc)

split(s) == SplitFrom(s, 1, <<>>, <<>>)

\* s.replace(" ", " - "): every single space character becomes " - "
RECURSIVE replace_space(_)
replace_space(s) ==
  IF s = <<>> THEN <<>>
  ELSE (IF Head(s) = " " THEN <<" ", "-", " ">> ELSE <<Head(s)>>)
       \o replace_space(Tail(s))

\* "%d" % n for a natural number n
Digit(d) == CASE d = 0 -> "0" [] d = 1 -> "1" [] d = 2 -> "2" [] d = 3 -> "3"
              [] d = 4 -> "4" [] d = 5 -> "5" [] d = 6 -> "6" [] d = 7 -> "7"
              [] d = 8 -> "8" [] d = 9 -> "9"

RECURSIVE FormatD(_)
FormatD(n) == IF n < 10 THEN <<Digit(n)>> ELSE FormatD(n \div 10) \o <<Digit(n % 10)>>

\* sys.exit(code): the status the parent process sees is code modulo 256
sys_exit(code) == code % 256

\* re.compile(tok): a pattern object holding the expression
re_compile(tok) == [pattern |-> tok]

\* pattern.match(s): the expression matches at position 0 and need not consume
\* the whole string; expressions here are literals and the wildcard "."
re_match(re, s) ==
  /\ Len(re.pattern) <= Len(s)
  /\ \A i \in 1..Len(re.pattern) : re.pattern[i] = "." \/ re.pattern[i] = s[i]

\* sorted(list(S)) for a set S of integers
RECURSIVE sorted(_)
sorted(S) ==
  IF S = {} THEN <<>>
  ELSE LET m == CHOOSE x \in S : \A y \in S : x <= y
       IN <<m>> \o sorted(S \ {m})

\* ------------------------------------------------------------- messages
ERR_INTERACTIONS ==
  <<
    "E","r","r","o","r",":"," ","I","n","t","e","r","a","c","t","i","o","n","s"," ","m",
    "u","s","t"," ","b","e"," ","v","a","l","i","d"," ","s","p","a","c","e","-","s","e",
    "p","a","r","a","t","e","d"," ","r","e","g","u","l","a","r"," ","e","x","p","r","e",
    "s","s","i","o","n","s","\n" >>

ERR_LABELS_0 ==
  <<
    "E","r","r","o","r",":"," ","O","n","l","y"," ","s","p","e","c","i","f","i","e","d",
    " " >>

ERR_LABELS_1 ==
  <<
    " ","l","a","b","e","l","s"," ","(","s","h","o","u","l","d"," ","b","e"," " >>

ERR_LABELS_2 ==
  <<
    ")"," ","w","h","i","c","h"," ","d","o","e","s","n","'","t"," ","m","a","t","c","h",
    " " >>

ERR_LABELS_3 ==
  <<
    " ","i","n","t","e","r","a","c","t","i","o","n"," ","p","a","t","t","e","r","n","s",
    " ","a","c","r","o","s","s"," " >>

ERR_LABELS_4 ==
  <<
    " ","f","i","l","e","s","\n" >>

\* ---------------------------------------------------------------- state
VARIABLES
  pc,                   \* the statement of main about to run
  interactions,         \* args.interactions: raw pattern strings
  input_contacts,       \* args.input_contacts: opened files [name, contents]
  labels_arg,           \* args.labels: None or Some(list of strings)
  trace_output,         \* args.trace_output
  itypes,               \* main's itypes
  interaction_patterns, \* main's interaction_patterns
  labels,               \* main's labels
  contact_lists,        \* main's contact_lists
  contact_frames,       \* main's contact_frames
  parsed,               \* number of contact files handed to parse_contacts
  stdout,               \* objects printed, in order
  stderr,               \* texts written to sys.stderr, in order
  written,              \* paths of the image files written
  exit_status           \* None while running, Some(status) once terminated

vars == << pc, interactions, input_contacts, labels_arg, trace_output, itypes,
           interaction_patterns, labels, contact_lists, contact_frames, parsed,
           stdout, stderr, written, exit_status >>

args == << interactions, input_contacts, labels_arg, trace_output >>

\* ------------------------------------------------------- the functions
\* parse_itypes(itype_argument), called with ['all']
ALL_ITYPES ==
  << "sb", "pc", "ps", "ts", "vdw", "hb", "lhb", "hbbb", "hbsb",
     "hbss", "wb", "wb2", "hls", "hlb", "lwb", "lwb2" >>

parse_itypes(itype_argument) ==
  IF "all" \in Range(itype_argument) THEN ALL_ITYPES ELSE itype_argument

\* line 94: ip_str_pairs = [ip.split() for ip in ipatterns]
ip_str_pairs_of(ipatterns) == [k \in DOMAIN ipatterns |-> split(ipatterns[k])]

\* (variant of malformed: the test written as len(ip) < 2)
malformed_too_few(ip_str_pairs) == \E k \in DOMAIN ip_str_pairs : Len(ip_str_pairs[k]) < 2

\* line 96: any([len(ip) != 2 for ip in ip_str_pairs])
malformed(ip_str_pairs) == \E k \in DOMAIN ip_str_pairs : Len(ip_str_pairs[k]) # 2

\* (variant of pattern_error_report: the first offending string is appended)
pattern_error_report_naming(ipatterns) ==
  LET k == CHOOSE k \in DOMAIN ipatterns :
             /\ Len(split(ipatterns[k])) # 2
             /\ \A h \in 1..(k - 1) : Len(split(ipatterns[h])) = 2
  IN ERR_INTERACTIONS \o ipatterns[k]

\* line 97: the text written to sys.stderr for the pattern list ipatterns
pattern_error_report(ipatterns) == ERR_INTERACTIONS

\* parse_interaction_patterns(ipatterns): what it prints, and either the exit
\* it takes (with what it wrote to stderr) or the list it returns
parse_interaction_patterns(ipatterns) ==
  LET ip_str_pairs == ip_str_pairs_of(ipatterns) IN
  IF malformed(ip_str_pairs)
    THEN [ exits |-> TRUE, status |-> sys_exit(-1), printed |-> ip_str_pairs,
           err |-> pattern_error_report(ipatterns), ret |-> <<>> ]
    ELSE [ exits |-> FALSE, status |-> 0, printed |-> ip_str_pairs, err |-> <<>>,
           ret |-> [ k \in DOMAIN ip_str_pairs |->
                       << re_compile(ip_str_pairs[k][1]),
                          re_compile(ip_str_pairs[k][2]) >> ] ]

\* (variant of label_count_ok: too few labels are accepted)
label_count_at_most(lbls, input_files, inters) ==
  Len(lbls) <= Len(inters) * Len(input_files)

\* line 105: the label-count test (TRUE when the count is accepted)
label_count_ok(lbls, input_files, inters) ==
  Len(lbls) = Len(inters) * Len(input_files)

\* lines 106-110: the text written to sys.stderr
label_error_report(lbls, input_files, inters) ==
  Concat(<< ERR_LABELS_0, FormatD(Len(lbls)),
            ERR_LABELS_1, FormatD(Len(inters) * Len(input_files)),
            ERR_LABELS_2, FormatD(Len(inters)),
            ERR_LABELS_3, FormatD(Len(input_files)),
            ERR_LABELS_4 >>)

\* line 116: f.name + ": " + i.replace(" ", " - ")
default_label(i, f) == f.name \o <<":", " ">> \o replace_space(i)

\* (variant of product: the two lists are paired element by element, as zip does)
product_zip(xs, ys) ==
  [ k \in 1..(IF Len(xs) < Len(ys) THEN Len(xs) ELSE Len(ys)) |-> << xs[k], ys[k] >> ]

\* line 116: product(interactions, input_files), the first argument outermost
product(xs, ys) ==
  Concat([ a \in DOMAIN xs |-> [ b \in DOMAIN ys |-> << xs[a], ys[b] >> ] ])

\* parse_labels(labels, input_files, interactions)
parse_labels(lbls_opt, input_files, inters) ==
  IF lbls_opt # None
    THEN LET lbls == lbls_opt[1] IN
         IF ~label_count_ok(lbls, input_files, inters)
           THEN [ exits |-> TRUE, status |-> sys_exit(-1),
                  err |-> label_error_report(lbls, input_files, inters),
                  ret |-> <<>> ]
           ELSE [ exits |-> FALSE, status |-> 0, err |-> <<>>, ret |-> lbls ]
    ELSE LET pairs == product(inters, input_files) IN
         [ exits |-> FALSE, status |-> 0, err |-> <<>>,
           ret |-> [ k \in DOMAIN pairs |-> default_label(pairs[k][1], pairs[k][2]) ] ]

\* contact_calc's parse_contacts(contact_file, itypes): the file's records whose
\* interaction type is selected, and the number of frames
parse_contacts(contact_file, its) ==
  LET recs == SelectSeq(contact_file.contents, LAMBDA c : c[2] \in Range(its)) IN
  << recs,
     IF recs = <<>> THEN 0
     ELSE 1 + (CHOOSE m \in { recs[k][1] : k \in DOMAIN recs } :
                 \A k \in DOMAIN recs : recs[k][1] <= m) >>

\* (variant of qualifies: only the orientation atom0, atom1 is tried)
qualifies_forward_only(ips, c) == re_match(ips[1], c[3]) /\ re_match(ips[2], c[4])

\* (variant of qualifies: only hydrogen-bond records are looked at)
qualifies_hb_only(ips, c) ==
  /\ c[2] = "hb"
  /\ \/ (re_match(ips[1], c[3]) /\ re_match(ips[2], c[4]))
     \/ (re_match(ips[1], c[4]) /\ re_match(ips[2], c[3]))

\* line 139: the test a contact c passes for the pattern pair ips
qualifies(ips, c) ==
  LET ip0 == ips[1]
      ip1 == ips[2]
      atom0 == c[3]
      atom1 == c[4]
  IN \/ (re_match(ip0, atom0) /\ re_match(ip1, atom1))
     \/ (re_match(ip0, atom1) /\ re_match(ip1, atom0))

\* lines 134-140: the set ip_contact_frames after the loop over contacts[1..n]
RECURSIVE ip_contact_frames_after(_, _, _)
ip_contact_frames_after(ips, contacts, n) ==
  IF n = 0 THEN {}
  ELSE LET before == ip_contact_frames_after(ips, contacts, n - 1)
           c == contacts[n]
       IN IF qualifies(ips, c) THEN before \cup { c[1] } ELSE before

\* (variant of frame_set: a list is appended to instead of a set, and not sorted)
frame_set_unsorted(ips, contacts) ==
  LET hits == SelectSeq(contacts, LAMBDA c : qualifies(ips, c))
  IN [ k \in DOMAIN hits |-> hits[k][1] ]

\* lines 134-142: the element appended to ret for one (pattern, contact list)
frame_set(ips, contacts) == sorted(ip_contact_frames_after(ips, contacts, Len(contacts)))

\* lines 130-142: the inner loop, over contact_lists[j..], appending to ret
RECURSIVE filter_inner(_, _, _, _)
filter_inner(ret, ips, clists, j) ==
  IF j > Len(clists) THEN ret
  ELSE filter_inner(Append(ret, frame_set(ips, clists[j])), ips, clists, j + 1)

\* lines 129-142: the outer loop, over interaction_patterns[i..]
RECURSIVE filter_outer(_, _, _, _)
filter_outer(ret, clists, ipatterns, i) ==
  IF i > Len(ipatterns) THEN ret
  ELSE filter_outer(filter_inner(ret, ipatterns[i], clists, 1), clists, ipatterns, i + 1)

\* (variant of filter_contacts: the loops nested the other way, files outermost)
filter_contacts_file_major(clists, ipatterns) ==
  [ k \in 1..(Len(ipatterns) * Len(clists)) |->
      frame_set(ipatterns[((k - 1) % Len(ipatterns)) + 1],
                clists[((k - 1) \div Len(ipatterns)) + 1]) ]

\* filter_contacts(contact_lists, interaction_patterns)
filter_contacts(clists, ipatterns) == filter_outer(<<>>, clists, ipatterns, 1)

\* line 159: assert len(contact_frames) == len(labels)
write_trace_precondition(frames, lbls) == Len(frames) = Len(lbls)

\* lines 161-166: what write_trace prints
write_trace_prints(frames, lbls, output_file) ==
  << <<"contact_frames:">>, frames, <<"labels:">>, lbls, <<"output_file:">>, output_file >>

\* lines 167-168: the image files write_trace writes
write_trace_files(frames, lbls, output_file) == <<>>

\* ------------------------------------------------------ input domains
\* raw --interactions strings of the pipeline runs: two well-formed patterns,
\* one delimited by a tab and one by two spaces, and strings of one, zero and
\* three tokens
RawMain ==
  { <<"A", " ", "B">>, <<"A", " ", "A">>, <<"A", "\t", "B">>, <<"A", " ", " ", "B">>,
    <<"A">>, <<>>, <<"A", " ", "B", " ", "A">> }

\* contact files of the pipeline runs
FileF ==
  [ name |-> <<"f">>,
    contents |-> << <<0, "hb", <<"A">>, <<"B">> >>, <<1, "vdw", <<"A">>, <<"A">> >> >> ]

FileG ==
  [ name |-> <<"g">>,
    contents |-> << <<1, "hb", <<"B">>, <<"A">> >>, <<0, "hb", <<"A">>, <<"B">> >> >> ]

FilesMain == { FileF, FileG }

LabelStrings == { <<"x">>, <<"y">> }

\* atom identifiers, interaction types and selector tokens of the filter runs
Atoms == { <<"B">>, <<"A", "B">> }

Tags == { "hb", "vdw" }

Tokens == { <<"A">>, <<"B">>, <<".">> }

Records == (0..MaxFrame) \X Tags \X Atoms \X Atoms

RawFilter == { x \o <<" ">> \o y : x \in Tokens, y \in Tokens } \cup { <<"A">> }

\* ------------------------------------------------------------- initial
\* the state when main has parsed its command line (line 80)
Started ==
  /\ pc = "parse_itypes"
  /\ trace_output = <<"t", ".", "p", "n", "g">>
  /\ itypes = <<>>
  /\ interaction_patterns = <<>>
  /\ labels = <<>>
  /\ contact_lists = <<>>
  /\ contact_frames = <<>>
  /\ parsed = 0
  /\ stdout = <<>>
  /\ stderr = <<>>
  /\ written = <<>>
  /\ exit_status = None

\* pipeline runs: every count of patterns, files and labels within the bounds
Init ==
  /\ interactions \in SeqsUpTo(RawMain, 1, MaxPatterns)
  /\ input_contacts \in SeqsUpTo(FilesMain, 1, MaxFiles)
  /\ labels_arg \in { None } \cup { Some(l) : l \in SeqsUpTo(LabelStrings, 1, MaxLabels) }
  /\ Started

\* filter runs: one pattern against one file holding any records within the
\* bounds, labels omitted or (one variant) one label too many
InitFilter ==
  /\ interactions \in { <<p>> : p \in RawFilter }
  /\ input_contacts \in
       { << [ name |-> <<"f">>, contents |-> cs ] >> : cs \in SeqsUpTo(Records, 0, MaxRecs) }
  /\ labels_arg \in { None, Some(<< <<"x">>, <<"y">> >>) }
  /\ labels_arg # None => input_contacts[1].contents = <<>>
  /\ Started

\* -------------------------------------------------------------- actions
\* line 83: itypes = parse_itypes(['all'])
main_parse_itypes ==
  /\ pc = "parse_itypes"
  /\ itypes' = parse_itypes(<<"all">>)
  /\ pc' = "parse_interaction_patterns"
  /\ UNCHANGED << args, interaction_patterns, labels, contact_lists, contact_frames,
                  parsed, stdout, stderr, written, exit_status >>

\* line 84, parse_interaction_patterns returns
main_parse_interaction_patterns ==
  /\ pc = "parse_interaction_patterns"
  /\ LET r == parse_interaction_patterns(interactions) IN
     /\ ~r.exits
     /\ stdout' = Append(stdout, r.printed)
     /\ interaction_patterns' = r.ret
  /\ pc' = "parse_labels"
  /\ UNCHANGED << args, itypes, labels, contact_lists, contact_frames, parsed,
                  stderr, written, exit_status >>

\* line 84, parse_interaction_patterns calls sys.exit (lines 97-98)
main_parse_interaction_patterns_exit ==
  /\ pc = "parse_interaction_patterns"
  /\ LET r == parse_interaction_patterns(interactions) IN
     /\ r.exits
     /\ stdout' = Append(stdout, r.printed)
     /\ stderr' = Append(stderr, r.err)
     /\ exit_status' = Some(r.status)
  /\ pc' = "parse_interaction_patterns:sys.exit"
  /\ UNCHANGED << args, itypes, interaction_patterns, labels, contact_lists,
                  contact_frames, parsed, written >>

\* line 85, parse_labels returns
main_parse_labels ==
  /\ pc = "parse_labels"
  /\ LET r == parse_labels(labels_arg, input_contacts, interactions) IN
     /\ ~r.exits
     /\ labels' = r.ret
  /\ pc' = "parse_contacts"
  /\ UNCHANGED << args, itypes, interaction_patterns, contact_lists, contact_frames,
                  parsed, stdout, stderr, written, exit_status >>

\* line 85, parse_labels calls sys.exit (lines 106-111)
main_parse_labels_exit ==
  /\ pc = "parse_labels"
  /\ LET r == parse_labels(labels_arg, input_contacts, interactions) IN
     /\ r.exits
     /\ stderr' = Append(stderr, r.err)
     /\ exit_status' = Some(r.status)
  /\ pc' = "parse_labels:sys.exit"
  /\ UNCHANGED << args, itypes, interaction_patterns, labels, contact_lists,
                  contact_frames, parsed, stdout, written >>

\* line 86: contact_lists = [parse_contacts(f, itypes)[0] for f in args.input_contacts]
main_parse_contacts ==
  /\ pc = "parse_contacts"
  /\ contact_lists' =
       [ k \in DOMAIN input_contacts |-> parse_contacts(input_contacts[k], itypes)[1] ]
  /\ parsed' = parsed + Len(input_contacts)
  /\ pc' = "filter_contacts"
  /\ UNCHANGED << args, itypes, interaction_patterns, labels, contact_frames,
                  stdout, stderr, written, exit_status >>

\* line 89: contact_frames = filter_contacts(contact_lists, interaction_patterns)
main_filter_contacts ==
  /\ pc = "filter_contacts"
  /\ contact_frames' = filter_contacts(contact_lists, interaction_patterns)
  /\ pc' = "write_trace"
  /\ UNCHANGED << args, itypes, interaction_patterns, labels, contact_lists, parsed,
                  stdout, stderr, written, exit_status >>

\* line 90: write_trace(contact_frames, labels, args.trace_output), then main
\* returns and the interpreter exits with status 0; a failed assert (line 159) is an
\* uncaught AssertionError: a traceback on stderr and exit status 1
main_write_trace ==
  /\ pc = "write_trace"
  /\ IF write_trace_precondition(contact_frames, labels)
       THEN /\ stdout' = stdout \o write_trace_prints(contact_frames, labels, trace_output)
            /\ written' = written \o write_trace_files(contact_frames, labels, trace_output)
            /\ exit_status' = Some(0)
            /\ pc' = "done"
            /\ UNCHANGED stderr
       ELSE /\ stderr' = Append(stderr, <<"AssertionError">>)
            /\ exit_status' = Some(1)
            /\ pc' = "write_trace:AssertionError"
            /\ UNCHANGED << stdout, written >>
  /\ UNCHANGED << args, itypes, interaction_patterns, labels, contact_lists,
                  contact_frames, parsed >>

Next ==
  \/ main_parse_itypes
  \/ main_parse_interaction_patterns
  \/ main_parse_interaction_patterns_exit
  \/ main_parse_labels
  \/ main_parse_labels_exit
  \/ main_parse_contacts
  \/ main_filter_contacts
  \/ main_write_trace

Spec == Init /\ [][Next]_vars

SpecFilter == InitFilter /\ [][Next]_vars

\* ------------------------------------------------------------ properties
\* position k of the flat list for pattern i and file j, n files in all
FlatIndex(i, j, n) == (i - 1) * n + j

\* filter_contacts has returned
Filtered == pc \in { "write_trace", "done", "write_trace:AssertionError" }

\* parse_interaction_patterns has run (returned or exited)
PatternsParsed == pc \notin { "parse_itypes", "parse_interaction_patterns" }

\* parse_labels has run (returned or exited)
LabelsParsed == PatternsParsed /\ pc \notin { "parse_interaction_patterns:sys.exit", "parse_labels" }

\* number of whitespace-separated tokens of s: the positions where a token starts
TokenCount(s) ==
  Cardinality({ i \in DOMAIN s :
                  /\ s[i] \notin Whitespace
                  /\ (i = 1 \/ s[i - 1] \in Whitespace) })

IsSubstring(s, t) ==
  \E i \in 0..(Len(t) - Len(s)) : \A j \in 1..Len(s) : t[i + j] = s[j]

\* the process has stopped with a non-zero status having done nothing after the
\* argument checks: no file parsed, no filtering, no rendering, nothing written
FatalBeforeWork ==
  /\ exit_status # None /\ exit_status[1] # 0
  /\ Len(stderr) = 1 /\ stderr[1] # <<>>
  /\ parsed = 0 /\ contact_lists = <<>>
  /\ contact_frames = <<>>
  /\ written = <<>>
  /\ \A k \in DOMAIN stdout : stdout[k] # <<"contact_frames:">>
  /\ ~ENABLED Next

\* C1: filter_contacts returns m*n FrameSets, the one at (0-based) index i*n + j
\* being that of pattern i against file j, and the default labels are enumerated
\* in the same order: label k names the pattern and the file of FrameSet k.
C1_PatternMajorOrder ==
  Filtered =>
    LET m == Len(interaction_patterns)
        n == Len(contact_lists)
    IN /\ Len(contact_frames) = m * n
       /\ \A i \in 1..m, j \in 1..n :
            contact_frames[FlatIndex(i, j, n)] =
              frame_set(interaction_patterns[i], contact_lists[j])
       /\ labels_arg = None =>
            /\ Len(labels) = m * n
            /\ \A i \in 1..m, j \in 1..n :
                 labels[FlatIndex(i, j, n)] =
                   default_label(interactions[i], input_contacts[j])

C1_Witness ==
  /\ pc = "done" /\ labels_arg = None
  /\ Len(interaction_patterns) = 2 /\ Len(contact_lists) = 2
  /\ contact_frames[2] # contact_frames[3]
  /\ labels[2] # labels[3]

\* C2: a frame is in the FrameSet of (pattern, contact list) exactly when some
\* record of that frame matches the two selectors in one of the two orientations;
\* swapping the two atoms of any record leaves the result unchanged.
C2_SymmetricMatch ==
  Filtered =>
    LET n == Len(contact_lists) IN
    \A i \in DOMAIN interaction_patterns, j \in DOMAIN contact_lists :
      LET fs == contact_frames[FlatIndex(i, j, n)]
          p0 == interaction_patterns[i][1]
          p1 == interaction_patterns[i][2]
          cl == contact_lists[j]
          Hit(k) == \/ (re_match(p0, cl[k][3]) /\ re_match(p1, cl[k][4]))
                    \/ (re_match(p0, cl[k][4]) /\ re_match(p1, cl[k][3]))
      IN /\ Range(fs) = { cl[k][1] : k \in { h \in DOMAIN cl : Hit(h) } }
         /\ \A k \in DOMAIN cl :
              LET c == cl[k]
                  swapped == [ contact_lists EXCEPT ![j][k] = << c[1], c[2], c[4], c[3] >> ]
              IN filter_contacts(swapped, interaction_patterns) = contact_frames

C2_Witness ==
  /\ pc = "done"
  /\ contact_frames[1] # <<>>
  /\ \E k \in DOMAIN contact_lists[1] :
       LET c == contact_lists[1][k]
           p0 == interaction_patterns[1][1]
           p1 == interaction_patterns[1][2]
       IN /\ ~(re_match(p0, c[3]) /\ re_match(p1, c[4]))
          /\ re_match(p0, c[4]) /\ re_match(p1, c[3])
  /\ \E k \in DOMAIN contact_lists[1] :
       contact_lists[1][k][1] \notin Range(contact_frames[1])

\* C3: every FrameSet returned by filter_contacts is strictly ascending.
C3_StrictlyAscending ==
  Filtered =>
    \A k \in DOMAIN contact_frames :
      \A a, b \in DOMAIN contact_frames[k] :
        a < b => contact_frames[k][a] < contact_frames[k][b]

C3_Witness ==
  /\ pc = "done"
  /\ Len(contact_lists[1]) = 2
  /\ contact_lists[1][1][1] = contact_lists[1][2][1]
  /\ contact_lists[1][1] # contact_lists[1][2]
  /\ \A k \in 1..2 : qualifies(interaction_patterns[1], contact_lists[1][k])
  /\ Len(contact_frames[1]) = 1

\* C4: with labels supplied, a count other than patterns * files is fatal in
\* parse_labels (message on stderr, non-zero exit, nothing parsed, filtered or
\* rendered); with the count equal parse_labels returns the supplied list
\* unchanged, which is the list rendered against the pattern-major FrameSets.
C4_LabelCount ==
  (labels_arg # None /\ LabelsParsed) =>
    LET supplied == labels_arg[1]
        m == Len(interactions)
        n == Len(input_contacts)
    IN IF Len(supplied) # m * n
         THEN pc = "parse_labels:sys.exit" /\ FatalBeforeWork
         ELSE /\ pc # "parse_labels:sys.exit"
              /\ labels = supplied
              /\ exit_status \in { None, Some(0) }
              /\ stderr = <<>>
              /\ Filtered => Len(contact_frames) = Len(supplied)
              /\ pc = "done" => stdout[Len(stdout) - 2] = supplied

C4_Witness ==
  /\ pc = "parse_labels:sys.exit"
  /\ Len(labels_arg[1]) = Len(interactions) * Len(input_contacts) - 1
  /\ Len(interactions) = 2 /\ Len(input_contacts) = 2

C6_ImageWritten ==
  pc = "done" => (exit_status = Some(0) /\ written = << trace_output >>)

\* the raw pattern string with its single delimiting whitespace character (the
\* first one after the first token) replaced by " - "
DelimiterReplaced(raw) ==
  LET d == CHOOSE i \in DOMAIN raw :
             /\ raw[i] \in Whitespace
             /\ \E h \in 1..(i - 1) : raw[h] \notin Whitespace
             /\ \A h \in 1..(i - 1) :
                  raw[h] \in Whitespace => \A g \in 1..h : raw[g] \in Whitespace
  IN SubSeq(raw, 1, d - 1) \o <<" ", "-", " ">> \o SubSeq(raw, d + 1, Len(raw))

\* C7: a default label is the file's name, ": ", and the raw pattern string with
\* only its delimiting whitespace replaced by " - ", for every accepted string.
C7_DefaultLabel ==
  (labels_arg = None /\ LabelsParsed) =>
    LET n == Len(input_contacts) IN
    \A i \in DOMAIN interactions, j \in DOMAIN input_contacts :
      labels[FlatIndex(i, j, n)] =
        input_contacts[j].name \o <<":", " ">> \o DelimiterReplaced(interactions[i])

\* C8 as stated: the error report for a malformed pattern contains the
\* offending pattern string.
C8_ReportNamesPattern ==
  pc = "parse_interaction_patterns:sys.exit" =>
    \E k \in DOMAIN interactions :
      /\ TokenCount(interactions[k]) # 2
      /\ \E e \in DOMAIN stderr : IsSubstring(interactions[k], stderr[e])

\* C8 as amended: the error report for a malformed pattern is the one fixed
\* text of line 97, whatever the offending pattern string is.
C8_FixedReport ==
  pc = "parse_interaction_patterns:sys.exit" => stderr = << ERR_INTERACTIONS >>

C8_Witness ==
  /\ pc = "parse_interaction_patterns:sys.exit"
  /\ \A k \in DOMAIN interactions : TokenCount(interactions[k]) # 2
  /\ \A k \in DOMAIN interactions : ~IsSubstring(interactions[k], stderr[1])

\* C9: whenever write_trace is reached there are as many FrameSets as labels,
\* so its assertion never fails.
C9_RenderPrecondition ==
  /\ pc = "write_trace" => Len(contact_frames) = Len(labels)
  /\ pc # "write_trace:AssertionError"

C9_Witness ==
  /\ pc = "write_trace"
  /\ labels_arg = None
  /\ Len(interaction_patterns) = 2 /\ Len(contact_lists) = 1
  /\ Len(contact_frames) = 2

\* the contact lists with the interaction type of record k of list j set to t[j][k]
Retagged(clists, t) ==
  [ j \in DOMAIN clists |->
      [ k \in DOMAIN clists[j] |->
          << clists[j][k][1], t[j][k], clists[j][k][3], clists[j][k][4] >> ] ]

\* C10: the FrameSets do not depend on the interaction type of any record: the
\* same contact lists under every other tagging give the same list of FrameSets.
C10_TagIndependent ==
  Filtered =>
    \A t \in [ DOMAIN contact_lists -> [ 1..MaxRecs -> Tags ] ] :
      filter_contacts(Retagged(contact_lists, t), interaction_patterns) = contact_frames

C10_Witness ==
  /\ pc = "done"
  /\ Len(contact_lists[1]) = 2
  /\ contact_lists[1][1][2] # contact_lists[1][2][2]
  /\ contact_lists[1][1][1] # contact_lists[1][2][1]
  /\ Len(contact_frames[1]) = 2

====
